---- MODULE Spec2Model ----
(***************************************************************************)
(* Model of scripts/frontend/tabs/remote_meeting.py.                       *)
(*                                                                         *)
(* One capture context (one AzureAudioProcessor object) is followed over   *)
(* its life.  Four kinds of thread act on it:                              *)
(*   - the transport thread calling recv() and the caller of stop();       *)
(*   - the worker thread running _process_audio();                         *)
(*   - the recognition thread running start_azure_recognition() and the    *)
(*     engine's callback thread running result_callback/canceled_callback; *)
(*   - the script thread running render_remote_meeting() once per cycle.   *)
(* The audio side (recv/_process_audio/stop) and the relay side            *)
(* (callbacks/render_remote_meeting/store) share no variable: the engine   *)
(* is opaque, so what it recognises is not a function of the bytes it was  *)
(* written.  Spec, SpecLive and SpecRoom run the relay side (SpecLive with  *)
(* the script thread scheduled fairly, SpecRoom with other participants    *)
(* writing to the store), SpecAudio and SpecAudioLive the audio side       *)
(* (SpecAudioLive with the worker thread scheduled fairly).                *)
(*                                                                         *)
(* Ghost state (history only; a modelled statement reads none of it, the   *)
(* guards read the counters to bound the run): the fields seq and origin   *)
(* of a queued event, the field id of a frame, and the variables           *)
(* delivered, emitted, error_events, dropped_empty, drained, appended,     *)
(* drain_from, cycles, remote_appends, submitted, stopped_at,              *)
(* taken_after_stop, late_writes, write_errors, closes, stops, failed.     *)
(* The "timestamp" entry of a queued event (lines 82, 92, 109) is left     *)
(* out: no statement of the file reads it.                                 *)
(***************************************************************************)
EXTENDS Integers, Sequences, FiniteSets, TLC

\* ------------------------------------------------------------- bounds ----
MaxEvents == 2        \* engine callbacks delivered in one session
MaxCycles == 2        \* runs of render_remote_meeting
MaxRemote == 1        \* appends by other participants' orchestrators
MaxFrames == 3        \* frames the transport hands to recv
MaxStops == 2         \* calls of stop()
MaxWriteErrors == 1   \* stream writes that raise while the stream is open

\* ------------------------------------------------ program constants ----
InputRate == 48000        \* media_stream_constraints sampleRate
OutputRate == 16000       \* AudioResampler rate / AudioStreamFormat
BitsPerSample == 16       \* AudioStreamFormat bits_per_sample

\* -------------------------------------------------------- input sets ----
Langs == {"en", "es"}
LangPairs == {<<"en", "es">>, <<"es", "en">>}
DefaultCodes == <<"en", "es">>
Rooms == {"General", "Side"}
DefaultRoom == "General"       \* st.text_input("Room ID", value="General")
LocalUser == "User"
RemoteUser == "Guest"
Texts == {"", "hello"}
Translated == {"", "hola"}
ResultReasons == {"TranslatedSpeech", "NoMatch"}
CancellationReasons == {"Error", "EndOfStream"}
ErrorDetails == {"", "bad key"}
StartupErrors == {"invalid subscription"}

\* a frame of the transport: a number of samples at InputRate; resampling
\* a malformed frame raises
FrameSamples == {2, 3}
FrameKinds == {"ok", "malformed"}

\* evt.result.translations: a dict keyed by language
TranslationMaps == UNION {[D -> Translated] : D \in {{}, {"es"}, Langs}}
RecognizedEvents == [reason : ResultReasons, text : Texts,
                     translations : TranslationMaps]
SpokenEvents == {evt \in RecognizedEvents :
                    /\ evt.reason = "TranslatedSpeech"
                    /\ evt.text = "hello"
                    /\ DOMAIN evt.translations = Langs
                    /\ evt.translations["en"] = evt.translations["es"]}
CanceledEvents == [reason : CancellationReasons, error_details : ErrorDetails]

VARIABLES
    \* ---- the capture context (streamlit_webrtc, environment)
    ctx_state,              \* "new", "signalling", "playing" or "ended"
    \* ---- attributes render_remote_meeting puts on the processor
    azure_thread_started,   \* hasattr(processor, 'azure_thread_started')
    result_queue,           \* processor.result_queue (queue.Queue)
    \* ---- recognition threads: one record per threading.Thread started
    azure_threads,
    \* ---- the script thread
    render_pc, source_lang_code, target_lang_code, room_id, username,
    msg, messages,
    \* ---- the store (scripts.backend.db.DatabaseManager)
    db,
    \* ---- AzureAudioProcessor
    audio_queue, is_running, stream, resampler,
    worker_pc, frame, resampled_frames,
    recv_pc, recv_frame, stop_pc,
    \* ---- ghost
    delivered, emitted, error_events, dropped_empty, drained, appended,
    drain_from, cycles, remote_appends, submitted, stopped_at, taken_after_stop,
    late_writes, write_errors, closes, stops, failed

ctxVars == <<ctx_state>>
sessionVars == <<azure_thread_started, result_queue, azure_threads>>
argVars == <<source_lang_code, target_lang_code, room_id, username>>
scriptVars == <<render_pc, argVars, msg, messages, cycles>>
storeVars == <<db, remote_appends>>
engineGhost == <<delivered, emitted, error_events, dropped_empty>>
drainGhost == <<drained, appended, drain_from>>
relayVars == <<sessionVars, scriptVars, storeVars, engineGhost, drainGhost>>
audioVars == <<audio_queue, is_running, stream, resampler, worker_pc, frame,
               resampled_frames, recv_pc, recv_frame, stop_pc, submitted,
               stopped_at, taken_after_stop, late_writes, write_errors,
               closes, stops, failed>>
vars == <<ctxVars, relayVars, audioVars>>

\* ------------------------------------------------------------ helpers ----
IsPrefix(s, t) == Len(s) <= Len(t) /\ SubSeq(t, 1, Len(s)) = s

Reverse(s) == [i \in 1..Len(s) |-> s[Len(s) + 1 - i]]

Range(s) == {s[i] : i \in DOMAIN s}

\* dict.get(key, default)
DictGet(d, k, default) == IF k \in DOMAIN d THEN d[k] ELSE default

\* queue.Queue: put at the tail, get from the head, empty()
QueuePut(q, x) == Append(q, x)
QueueEmpty(q) == q = <<>>
QueueFront(q) == Head(q)
QueueRest(q) == Tail(q)

NoMsg == [original |-> "", translated |-> "", seq |-> 0, origin |-> "none"]
NoRead == [room |-> "", rows |-> <<>>]

\* ---------------------------------------------- the capture context ----
\* ctx.state.playing (line 255) and ctx.audio_processor (line 175) as the
\* script thread reads them
ctx_playing == ctx_state \in {"signalling", "playing"}
ctx_audio_processor == ctx_state = "playing"

\* the user presses START: the transport begins signalling
CtxConnect ==
    /\ ctx_state = "new"
    /\ ctx_state' = "signalling"
    /\ UNCHANGED <<relayVars, audioVars>>

\* audio_processor_factory=AzureAudioProcessor (line 167) has run
CtxProcessorReady ==
    /\ ctx_state = "signalling"
    /\ ctx_state' = "playing"
    /\ UNCHANGED <<relayVars, audioVars>>

\* the user presses STOP or the connection drops, at any moment
CtxEnd ==
    /\ ctx_state \in {"signalling", "playing"}
    /\ ctx_state' = "ended"
    /\ UNCHANGED <<relayVars, audioVars>>

\* ------------------------------------------------------- the store ----
\* DatabaseManager.add_message / get_messages: an append-only log per room
add_message(d, room, user, original, translated, lang) ==
    [d EXCEPT ![room] = Append(@, [user |-> user, original |-> original,
                                   translated |-> translated, lang |-> lang])]

get_messages(d, room) == d[room]

AddMessageOutcomes == {"ok", "storage_error"}

\* --------------------------------- start_azure_recognition (54-110) ----
\* result_queue.put of the dict built at lines 79-83, 89-93 or 106-110
PutEvent(original, translated, origin) ==
    LET e == [original |-> original, translated |-> translated,
              seq |-> emitted + 1, origin |-> origin]
    IN  /\ result_queue' = QueuePut(result_queue, e)
        /\ emitted' = emitted + 1
        /\ error_events' = IF origin = "recognized" THEN error_events
                           ELSE error_events + 1

\* lines 55-96: the configuration, the recognizer and the two connects
\* are built without raising
AzureSetup(t) ==
    /\ azure_threads[t].pc = "setup"
    /\ azure_threads' = [azure_threads EXCEPT ![t].pc = "starting"]
    /\ UNCHANGED <<ctxVars, audioVars, scriptVars, storeVars, drainGhost,
                   azure_thread_started, result_queue, engineGhost>>

\* lines 98-102: start_continuous_recognition() returns and the thread
\* sleeps in `while True` from then on
AzureStartContinuous(t) ==
    /\ azure_threads[t].pc = "starting"
    /\ azure_threads' = [azure_threads EXCEPT ![t].pc = "listening"]
    /\ UNCHANGED <<ctxVars, audioVars, scriptVars, storeVars, drainGhost,
                   azure_thread_started, result_queue, engineGhost>>

\* lines 104-110: a statement of the try block raised e; the handler puts
\* the EXCEPTION event and the thread function returns
AzureException(t, e) ==
    /\ azure_threads[t].pc \in {"setup", "starting"}
    /\ azure_threads' = [azure_threads EXCEPT ![t].pc = "returned"]
    /\ PutEvent("EXCEPTION: " \o e,
                "Azure connection failed. Check credentials.", "exception")
    /\ UNCHANGED <<ctxVars, audioVars, scriptVars, storeVars, drainGhost,
                   azure_thread_started, delivered, dropped_empty>>

\* result_callback with line 78 as `if evt.result.text:`
result_callback_NoTransCheck(t, evt) ==
    /\ azure_threads[t].pc = "listening"
    /\ delivered < MaxEvents
    /\ delivered' = delivered + 1
    /\ LET trans == DictGet(evt.translations, azure_threads[t].target_lang, "")
       IN  IF /\ evt.reason = "TranslatedSpeech"
              /\ evt.text # ""
           THEN /\ PutEvent(evt.text, trans, "recognized")
                /\ UNCHANGED dropped_empty
           ELSE /\ UNCHANGED <<result_queue, emitted, error_events>>
                /\ dropped_empty' =
                       IF evt.reason = "TranslatedSpeech"
                       THEN dropped_empty + 1 ELSE dropped_empty
    /\ UNCHANGED <<ctxVars, audioVars, scriptVars, storeVars, drainGhost,
                   azure_thread_started, azure_threads>>

\* lines 72-83: the engine calls result_callback(evt) of thread t
result_callback(t, evt) ==
    /\ azure_threads[t].pc = "listening"
    /\ delivered < MaxEvents
    /\ delivered' = delivered + 1
    /\ LET trans == DictGet(evt.translations, azure_threads[t].target_lang, "")
       IN  IF /\ evt.reason = "TranslatedSpeech"
              /\ evt.text # ""
              /\ trans # ""
           THEN /\ PutEvent(evt.text, trans, "recognized")
                /\ UNCHANGED dropped_empty
           ELSE /\ UNCHANGED <<result_queue, emitted, error_events>>
                /\ dropped_empty' =
                       IF evt.reason = "TranslatedSpeech"
                       THEN dropped_empty + 1 ELSE dropped_empty
    /\ UNCHANGED <<ctxVars, audioVars, scriptVars, storeVars, drainGhost,
                   azure_thread_started, azure_threads>>

\* canceled_callback without the test of line 87
canceled_callback_AnyReason(t, evt) ==
    /\ azure_threads[t].pc = "listening"
    /\ delivered < MaxEvents
    /\ delivered' = delivered + 1
    /\ PutEvent("ERROR: " \o evt.error_details,
                "Recognition failed. Check Azure credentials.", "canceled")
    /\ UNCHANGED <<ctxVars, audioVars, scriptVars, storeVars, drainGhost,
                   azure_thread_started, azure_threads, dropped_empty>>

\* lines 85-93: the engine calls canceled_callback(evt) of thread t
canceled_callback(t, evt) ==
    /\ azure_threads[t].pc = "listening"
    /\ delivered < MaxEvents
    /\ delivered' = delivered + 1
    /\ IF evt.reason = "Error"
       THEN PutEvent("ERROR: " \o evt.error_details,
                     "Recognition failed. Check Azure credentials.",
                     "canceled")
       ELSE UNCHANGED <<result_queue, emitted, error_events>>
    /\ UNCHANGED <<ctxVars, audioVars, scriptVars, storeVars, drainGhost,
                   azure_thread_started, azure_threads, dropped_empty>>

\* ------------------------------------ render_remote_meeting (113-289) ----
\* an exception leaves the script run: AttributeError on ctx.audio_processor
\* when the transport has taken the processor away meanwhile
RenderCrash ==
    /\ render_pc' = "crashed"
    /\ UNCHANGED <<ctxVars, audioVars, sessionVars, argVars, msg, messages,
                   storeVars, engineGhost, drainGhost, cycles>>

\* lines 113-173: a script run begins with the caller's language codes and
\* the values of the two text inputs
RenderBegin(src, tgt, room, user) ==
    /\ render_pc \in {"idle", "ended", "crashed"}
    /\ cycles < MaxCycles
    /\ cycles' = cycles + 1
    /\ source_lang_code' = src
    /\ target_lang_code' = tgt
    /\ room_id' = room
    /\ username' = user
    /\ drain_from' = -1
    /\ render_pc' = "check"
    /\ UNCHANGED <<ctxVars, audioVars, sessionVars, msg, messages,
                   storeVars, engineGhost, drained, appended>>

\* lines 175 and 177 with the test of line 177 always true
RenderCheck_AlwaysStart ==
    /\ render_pc = "check"
    /\ render_pc' = IF ctx_audio_processor THEN "mark" ELSE "list"
    /\ UNCHANGED <<ctxVars, audioVars, sessionVars, argVars, msg, messages,
                   storeVars, engineGhost, drainGhost, cycles>>

\* lines 175 and 177
RenderCheck ==
    /\ render_pc = "check"
    /\ render_pc' = IF ctx_audio_processor
                    THEN IF ~azure_thread_started THEN "mark"
                         ELSE "drain_check"
                    ELSE "list"
    /\ drain_from' = IF ctx_audio_processor /\ azure_thread_started
                     THEN emitted ELSE drain_from
    /\ UNCHANGED <<ctxVars, audioVars, sessionVars, argVars, msg, messages,
                   storeVars, engineGhost, drained, appended, cycles>>

\* lines 178-179 without line 179
RenderMark_NoMarker ==
    /\ render_pc = "mark"
    /\ IF ctx_audio_processor
       THEN /\ result_queue' = <<>>
            /\ render_pc' = "launch"
            /\ UNCHANGED <<ctxVars, audioVars, azure_thread_started,
                           azure_threads, argVars, msg, messages, storeVars,
                           engineGhost, drainGhost, cycles>>
       ELSE RenderCrash

\* lines 178-179
RenderMark ==
    /\ render_pc = "mark"
    /\ IF ctx_audio_processor
       THEN /\ result_queue' = <<>>
            /\ azure_thread_started' = TRUE
            /\ render_pc' = "launch"
            /\ UNCHANGED <<ctxVars, audioVars, azure_threads, argVars, msg,
                           messages, storeVars, engineGhost, drainGhost,
                           cycles>>
       ELSE RenderCrash

\* lines 181-191
RenderLaunch ==
    /\ render_pc = "launch"
    /\ IF ctx_audio_processor
       THEN /\ azure_threads' =
                   Append(azure_threads,
                          [pc |-> "setup", source_lang |-> source_lang_code,
                           target_lang |-> target_lang_code])
            /\ render_pc' = "drain_check"
            /\ drain_from' = emitted
            /\ UNCHANGED <<ctxVars, audioVars, azure_thread_started,
                           result_queue, argVars, msg, messages, storeVars,
                           engineGhost, drained, appended, cycles>>
       ELSE RenderCrash

\* line 194
RenderDrainCheck ==
    /\ render_pc = "drain_check"
    /\ IF ctx_audio_processor
       THEN /\ render_pc' = IF QueueEmpty(result_queue) THEN "list"
                            ELSE "drain_get"
            /\ UNCHANGED <<ctxVars, audioVars, sessionVars, argVars, msg,
                           messages, storeVars, engineGhost, drainGhost,
                           cycles>>
       ELSE RenderCrash

\* line 195 on a queue.LifoQueue
RenderDrainGet_Lifo ==
    /\ render_pc = "drain_get"
    /\ IF ctx_audio_processor
       THEN /\ ~QueueEmpty(result_queue)
            /\ msg' = result_queue[Len(result_queue)]
            /\ result_queue' = SubSeq(result_queue, 1, Len(result_queue) - 1)
            /\ drained' = Append(drained, result_queue[Len(result_queue)].seq)
            /\ render_pc' = "drain_add"
            /\ UNCHANGED <<ctxVars, audioVars, azure_thread_started,
                           azure_threads, argVars, messages, storeVars,
                           engineGhost, appended, drain_from, cycles>>
       ELSE RenderCrash

\* line 195
RenderDrainGet ==
    /\ render_pc = "drain_get"
    /\ IF ctx_audio_processor
       THEN /\ ~QueueEmpty(result_queue)
            /\ msg' = QueueFront(result_queue)
            /\ result_queue' = QueueRest(result_queue)
            /\ drained' = Append(drained, QueueFront(result_queue).seq)
            /\ render_pc' = "drain_add"
            /\ UNCHANGED <<ctxVars, audioVars, azure_thread_started,
                           azure_threads, argVars, messages, storeVars,
                           engineGhost, appended, drain_from, cycles>>
       ELSE RenderCrash

\* lines 197-203 under `if` in place of the `while` of line 194
RenderDrainAdd_NoLoop(outcome) ==
    /\ render_pc = "drain_add"
    /\ IF outcome = "ok"
       THEN /\ db' = add_message(db, room_id, username, msg.original,
                                 msg.translated, source_lang_code)
            /\ appended' = Append(appended, msg.seq)
       ELSE UNCHANGED <<db, appended>>
    /\ msg' = NoMsg
    /\ render_pc' = "list"
    /\ UNCHANGED <<ctxVars, audioVars, sessionVars, argVars, messages,
                   remote_appends, engineGhost, drained, drain_from, cycles>>

\* lines 197-203 with a failed event put back on the queue
RenderDrainAdd_Requeue(outcome) ==
    /\ render_pc = "drain_add"
    /\ IF outcome = "ok"
       THEN /\ db' = add_message(db, room_id, username, msg.original,
                                 msg.translated, source_lang_code)
            /\ appended' = Append(appended, msg.seq)
            /\ UNCHANGED result_queue
       ELSE /\ result_queue' = QueuePut(result_queue, msg)
            /\ UNCHANGED <<db, appended>>
    /\ msg' = NoMsg
    /\ render_pc' = "drain_check"
    /\ UNCHANGED <<ctxVars, audioVars, azure_thread_started, azure_threads,
                   argVars, messages, remote_appends, engineGhost, drained,
                   drain_from, cycles>>

\* lines 197-203 with the arguments of lines 200 and 201 exchanged
RenderDrainAdd_SwappedText(outcome) ==
    /\ render_pc = "drain_add"
    /\ IF outcome = "ok"
       THEN /\ db' = add_message(db, room_id, username, msg.translated,
                                 msg.original, source_lang_code)
            /\ appended' = Append(appended, msg.seq)
       ELSE UNCHANGED <<db, appended>>
    /\ msg' = NoMsg
    /\ render_pc' = "drain_check"
    /\ UNCHANGED <<ctxVars, audioVars, sessionVars, argVars, messages,
                   remote_appends, engineGhost, drained, drain_from, cycles>>

\* lines 197-203; the value add_message returns is not read
RenderDrainAdd(outcome) ==
    /\ render_pc = "drain_add"
    /\ IF outcome = "ok"
       THEN /\ db' = add_message(db, room_id, username, msg.original,
                                 msg.translated, source_lang_code)
            /\ appended' = Append(appended, msg.seq)
       ELSE UNCHANGED <<db, appended>>
    /\ msg' = NoMsg
    /\ render_pc' = "drain_check"
    /\ UNCHANGED <<ctxVars, audioVars, sessionVars, argVars, messages,
                   remote_appends, engineGhost, drained, drain_from, cycles>>

\* line 206 reading the rows newest first
RenderList_Reversed ==
    /\ render_pc = "list"
    /\ messages' = [room |-> room_id,
                    rows |-> Reverse(get_messages(db, room_id))]
    /\ render_pc' = "refresh"
    /\ UNCHANGED <<ctxVars, audioVars, sessionVars, argVars, msg, storeVars,
                   engineGhost, drainGhost, cycles>>

\* line 206
RenderList ==
    /\ render_pc = "list"
    /\ messages' = [room |-> room_id, rows |-> get_messages(db, room_id)]
    /\ render_pc' = "refresh"
    /\ UNCHANGED <<ctxVars, audioVars, sessionVars, argVars, msg, storeVars,
                   engineGhost, drainGhost, cycles>>

\* lines 254-257 without the rerun
RenderRefresh_NoRerun ==
    /\ render_pc = "refresh"
    /\ render_pc' = "ended"
    /\ UNCHANGED <<ctxVars, audioVars, sessionVars, argVars, msg, messages,
                   storeVars, engineGhost, drainGhost, cycles>>

\* lines 254-257: rerun after a second while playing, else run to the end
RenderRefresh ==
    /\ render_pc = "refresh"
    /\ render_pc' = IF ctx_playing THEN "idle" ELSE "ended"
    /\ UNCHANGED <<ctxVars, audioVars, sessionVars, argVars, msg, messages,
                   storeVars, engineGhost, drainGhost, cycles>>

\* lines 197-203 run by another participant's script thread on the same
\* store
RemoteAppend(room, text, lang) ==
    /\ remote_appends < MaxRemote
    /\ remote_appends' = remote_appends + 1
    /\ db' = add_message(db, room, RemoteUser, text, text, lang)
    /\ UNCHANGED <<ctxVars, audioVars, sessionVars, scriptVars, engineGhost,
                   drainGhost>>

\* ------------------------------------------ AzureAudioProcessor (13-52) ----
NoFrame == [id |-> 0, samples |-> 0, kind |-> "none"]

QueuedIds(q) == {q[i].id : i \in 1..Len(q)}

\* av.AudioResampler(format='s16', layout='mono', rate=16000).resample:
\* input samples are consumed Ratio at a time, the remainder is buffered
\* for the next call, and a call that completes no output sample returns
\* an empty list
Ratio == InputRate \div OutputRate

ResampleOut(buffered, f) ==
    LET total == buffered + f.samples
    IN  IF total \div Ratio = 0 THEN <<>>
        ELSE <<[src |-> f.id, samples |-> total \div Ratio]>>

ResampleBuffered(buffered, f) == (buffered + f.samples) % Ratio

\* resampled_frame.to_ndarray().tobytes() of an s16 mono frame
ToBytes(rf) == [src |-> rf.src, nbytes |-> rf.samples * (BitsPerSample \div 8)]

\* line 29: recv reads is_running
RecvCheck(samples, kind) ==
    /\ recv_pc = "idle"
    /\ submitted < MaxFrames
    /\ submitted' = submitted + 1
    /\ IF is_running
       THEN /\ recv_pc' = "put"
            /\ recv_frame' = [id |-> submitted + 1, samples |-> samples,
                              kind |-> kind]
       ELSE UNCHANGED <<recv_pc, recv_frame>>
    /\ UNCHANGED <<ctxVars, relayVars, audio_queue, is_running, stream,
                   resampler, worker_pc, frame, resampled_frames, stop_pc,
                   stopped_at, taken_after_stop, late_writes, write_errors,
                   closes, stops, failed>>

\* lines 31-33 on the queue.Queue(maxsize=1) line 15 does not build: put
\* waits while the queue is full
RecvPut_Bounded ==
    /\ recv_pc = "put"
    /\ Len(audio_queue) < 1
    /\ audio_queue' = QueuePut(audio_queue, recv_frame)
    /\ recv_frame' = NoFrame
    /\ recv_pc' = "idle"
    /\ UNCHANGED <<ctxVars, relayVars, is_running, stream, resampler,
                   worker_pc, frame, resampled_frames, stop_pc, submitted,
                   stopped_at, taken_after_stop, late_writes, write_errors,
                   closes, stops, failed>>

\* lines 31-33
RecvPut ==
    /\ recv_pc = "put"
    /\ audio_queue' = QueuePut(audio_queue, recv_frame)
    /\ recv_frame' = NoFrame
    /\ recv_pc' = "idle"
    /\ UNCHANGED <<ctxVars, relayVars, is_running, stream, resampler,
                   worker_pc, frame, resampled_frames, stop_pc, submitted,
                   stopped_at, taken_after_stop, late_writes, write_errors,
                   closes, stops, failed>>

\* line 36 as `while self.is_running or not self.audio_queue.empty()`
WorkerWhile_DrainFirst ==
    /\ worker_pc = "while"
    /\ worker_pc' = IF is_running \/ ~QueueEmpty(audio_queue) THEN "get"
                    ELSE "done"
    /\ UNCHANGED <<ctxVars, relayVars, audio_queue, is_running, stream,
                   resampler, frame, resampled_frames, recv_pc, recv_frame,
                   stop_pc, submitted, stopped_at, taken_after_stop,
                   late_writes, write_errors, closes, stops, failed>>

\* line 36
WorkerWhile ==
    /\ worker_pc = "while"
    /\ worker_pc' = IF is_running THEN "get" ELSE "done"
    /\ UNCHANGED <<ctxVars, relayVars, audio_queue, is_running, stream,
                   resampler, frame, resampled_frames, recv_pc, recv_frame,
                   stop_pc, submitted, stopped_at, taken_after_stop,
                   late_writes, write_errors, closes, stops, failed>>

\* line 38 on a queue.LifoQueue: the frame put last is taken first
WorkerGet_Lifo ==
    /\ worker_pc = "get"
    /\ ~QueueEmpty(audio_queue)
    /\ frame' = audio_queue[Len(audio_queue)]
    /\ audio_queue' = SubSeq(audio_queue, 1, Len(audio_queue) - 1)
    /\ taken_after_stop' = IF is_running THEN taken_after_stop
                           ELSE taken_after_stop + 1
    /\ worker_pc' = "resample"
    /\ UNCHANGED <<ctxVars, relayVars, is_running, stream, resampler,
                   resampled_frames, recv_pc, recv_frame, stop_pc,
                   submitted, stopped_at, late_writes, write_errors, closes,
                   stops, failed>>

\* line 38: a frame is there before the second is over
WorkerGet ==
    /\ worker_pc = "get"
    /\ ~QueueEmpty(audio_queue)
    /\ frame' = QueueFront(audio_queue)
    /\ audio_queue' = QueueRest(audio_queue)
    /\ taken_after_stop' = IF is_running THEN taken_after_stop
                           ELSE taken_after_stop + 1
    /\ worker_pc' = "resample"
    /\ UNCHANGED <<ctxVars, relayVars, is_running, stream, resampler,
                   resampled_frames, recv_pc, recv_frame, stop_pc,
                   submitted, stopped_at, late_writes, write_errors, closes,
                   stops, failed>>

\* line 38 as `self.audio_queue.get()`: the wait on an empty queue has
\* no end
WorkerTimeout_Blocking ==
    /\ worker_pc = "get"
    /\ QueueEmpty(audio_queue)
    /\ UNCHANGED vars

\* lines 38, 45-46: the wait of one second ends on an empty queue
WorkerTimeout ==
    /\ worker_pc = "get"
    /\ QueueEmpty(audio_queue)
    /\ worker_pc' = "while"
    /\ UNCHANGED <<ctxVars, relayVars, audio_queue, is_running, stream,
                   resampler, frame, resampled_frames, recv_pc, recv_frame,
                   stop_pc, submitted, stopped_at, taken_after_stop,
                   late_writes, write_errors, closes, stops, failed>>

\* lines 45-46 alone: no handler for the other exceptions, which end the
\* thread
WorkerExcept_Unhandled ==
    /\ failed' = Append(failed, frame.id)
    /\ frame' = NoFrame
    /\ resampled_frames' = <<>>
    /\ worker_pc' = "done"

\* lines 47-48: the handler of `except Exception` prints and the loop
\* goes on with its next test
WorkerExcept ==
    /\ failed' = Append(failed, frame.id)
    /\ frame' = NoFrame
    /\ resampled_frames' = <<>>
    /\ worker_pc' = "while"

\* line 40
WorkerResample ==
    /\ worker_pc = "resample"
    /\ IF frame.kind = "malformed"
       THEN /\ WorkerExcept
            /\ UNCHANGED resampler
       ELSE /\ resampled_frames' = ResampleOut(resampler, frame)
            /\ resampler' = ResampleBuffered(resampler, frame)
            /\ worker_pc' = "write"
            /\ UNCHANGED <<frame, failed>>
    /\ UNCHANGED <<ctxVars, relayVars, audio_queue, is_running, stream,
                   recv_pc, recv_frame, stop_pc, submitted, stopped_at,
                   taken_after_stop, late_writes, write_errors, closes,
                   stops>>

\* lines 41-44, one turn of the for loop.  A write to a closed stream
\* either raises or is discarded by the engine; a write to an open stream
\* may raise too.
WorkerWrite(raises) ==
    /\ worker_pc = "write"
    /\ resampled_frames # <<>>
    /\ raises => (stream.closed \/ write_errors < MaxWriteErrors)
    /\ late_writes' = IF stream.closed THEN late_writes + 1 ELSE late_writes
    /\ write_errors' = IF raises /\ ~stream.closed THEN write_errors + 1
                       ELSE write_errors
    /\ IF raises
       THEN /\ WorkerExcept
            /\ UNCHANGED stream
       ELSE /\ stream' = IF stream.closed THEN stream
                         ELSE [stream EXCEPT !.written =
                                 Append(@, ToBytes(Head(resampled_frames)))]
            /\ resampled_frames' = Tail(resampled_frames)
            /\ UNCHANGED <<frame, worker_pc, failed>>
    /\ UNCHANGED <<ctxVars, relayVars, audio_queue, is_running, resampler,
                   recv_pc, recv_frame, stop_pc, submitted, stopped_at,
                   taken_after_stop, closes, stops>>

\* line 41: the for loop is over, back to line 36
WorkerNext ==
    /\ worker_pc = "write"
    /\ resampled_frames = <<>>
    /\ frame' = NoFrame
    /\ worker_pc' = "while"
    /\ UNCHANGED <<ctxVars, relayVars, audio_queue, is_running, stream,
                   resampler, resampled_frames, recv_pc, recv_frame,
                   stop_pc, submitted, stopped_at, taken_after_stop,
                   late_writes, write_errors, closes, stops, failed>>

\* line 51
StopFlag ==
    /\ stop_pc = "idle"
    /\ stops < MaxStops
    /\ stops' = stops + 1
    /\ is_running' = FALSE
    /\ stopped_at' = IF stops = 0 THEN QueuedIds(audio_queue)
                     ELSE stopped_at
    /\ stop_pc' = "close"
    /\ UNCHANGED <<ctxVars, relayVars, audio_queue, stream, resampler,
                   worker_pc, frame, resampled_frames, recv_pc, recv_frame,
                   submitted, taken_after_stop, late_writes, write_errors,
                   closes, failed>>

\* line 52
StopClose ==
    /\ stop_pc = "close"
    /\ stream' = [stream EXCEPT !.closed = TRUE]
    /\ closes' = closes + 1
    /\ stop_pc' = "idle"
    /\ UNCHANGED <<ctxVars, relayVars, audio_queue, is_running, resampler,
                   worker_pc, frame, resampled_frames, recv_pc, recv_frame,
                   submitted, stopped_at, taken_after_stop, late_writes,
                   write_errors, stops, failed>>

\* ------------------------------------------------- specifications ----
\* the processor after __init__ (lines 14-25) and the page before its
\* first script run
Init ==
    /\ ctx_state = "new"
    /\ azure_thread_started = FALSE
    /\ result_queue = <<>>
    /\ azure_threads = <<>>
    /\ render_pc = "idle"
    /\ source_lang_code = DefaultCodes[1]
    /\ target_lang_code = DefaultCodes[2]
    /\ room_id = DefaultRoom
    /\ username = LocalUser
    /\ msg = NoMsg
    /\ messages = NoRead
    /\ db = [r \in Rooms |-> <<>>]
    /\ audio_queue = <<>>
    /\ is_running = TRUE
    /\ stream = [closed |-> FALSE, written |-> <<>>]
    /\ resampler = 0
    /\ worker_pc = "while"
    /\ frame = NoFrame
    /\ resampled_frames = <<>>
    /\ recv_pc = "idle"
    /\ recv_frame = NoFrame
    /\ stop_pc = "idle"
    /\ delivered = 0
    /\ emitted = 0
    /\ dropped_empty = 0
    /\ error_events = 0
    /\ drained = <<>>
    /\ appended = <<>>
    /\ drain_from = -1
    /\ cycles = 0
    /\ remote_appends = 0
    /\ submitted = 0
    /\ stopped_at = {}
    /\ taken_after_stop = 0
    /\ late_writes = 0
    /\ write_errors = 0
    /\ closes = 0
    /\ stops = 0
    /\ failed = <<>>

\* the relay side with one participant in the default room, the caller
\* passing any of the language pairs
Next ==
    \/ CtxConnect
    \/ CtxProcessorReady
    \/ CtxEnd
    \/ \E t \in DOMAIN azure_threads : AzureSetup(t)
    \/ \E t \in DOMAIN azure_threads : AzureStartContinuous(t)
    \/ \E t \in DOMAIN azure_threads, e \in StartupErrors :
          AzureException(t, e)
    \/ \E t \in DOMAIN azure_threads, evt \in RecognizedEvents :
          result_callback(t, evt)
    \/ \E t \in DOMAIN azure_threads, evt \in CanceledEvents :
          canceled_callback(t, evt)
    \/ \E codes \in LangPairs :
          RenderBegin(codes[1], codes[2], DefaultRoom, LocalUser)
    \/ RenderCheck
    \/ RenderMark
    \/ RenderLaunch
    \/ RenderDrainCheck
    \/ RenderDrainGet
    \/ \E outcome \in AddMessageOutcomes : RenderDrainAdd(outcome)
    \/ RenderList
    \/ RenderRefresh

Spec == Init /\ [][Next]_vars

\* the script thread: a run goes on from statement to statement, and the
\* st.rerun() of line 257 begins the next run
ScriptRun ==
    \/ /\ render_pc = "idle"
       /\ \E codes \in LangPairs :
             RenderBegin(codes[1], codes[2], DefaultRoom, LocalUser)
    \/ RenderCheck
    \/ RenderMark
    \/ RenderLaunch
    \/ RenderDrainCheck
    \/ RenderDrainGet
    \/ \E outcome \in AddMessageOutcomes : RenderDrainAdd(outcome)
    \/ RenderList
    \/ RenderRefresh

SpecLive == Spec /\ WF_vars(ScriptRun)

\* the relay side with the participant moving between rooms that other
\* participants write to; the engine starts and delivers recognized
\* speech with its translations all set or all empty
NextRoom ==
    \/ CtxConnect
    \/ CtxProcessorReady
    \/ CtxEnd
    \/ \E t \in DOMAIN azure_threads : AzureSetup(t)
    \/ \E t \in DOMAIN azure_threads : AzureStartContinuous(t)
    \/ \E t \in DOMAIN azure_threads, evt \in SpokenEvents :
          result_callback(t, evt)
    \/ \E room \in Rooms :
          RenderBegin(DefaultCodes[1], DefaultCodes[2], room, LocalUser)
    \/ RenderCheck
    \/ RenderMark
    \/ RenderLaunch
    \/ RenderDrainCheck
    \/ RenderDrainGet
    \/ \E outcome \in AddMessageOutcomes : RenderDrainAdd(outcome)
    \/ RenderList
    \/ RenderRefresh
    \/ \E room \in Rooms : RemoteAppend(room, "hi", DefaultCodes[1])

SpecRoom == Init /\ [][NextRoom]_vars

\* the audio side: recv, the worker and stop
NextAudio ==
    \/ \E samples \in FrameSamples, kind \in FrameKinds :
          RecvCheck(samples, kind)
    \/ RecvPut
    \/ WorkerWhile
    \/ WorkerGet
    \/ WorkerTimeout
    \/ WorkerResample
    \/ \E raises \in BOOLEAN : WorkerWrite(raises)
    \/ WorkerNext
    \/ StopFlag
    \/ StopClose

SpecAudio == Init /\ [][NextAudio]_vars

\* the worker is a thread of its own: it is scheduled again and again
Worker ==
    \/ WorkerWhile
    \/ WorkerGet
    \/ WorkerTimeout
    \/ WorkerResample
    \/ \E raises \in BOOLEAN : WorkerWrite(raises)
    \/ WorkerNext

SpecAudioLive == SpecAudio /\ WF_vars(Worker)

\* ------------------------------------------------------- properties ----
Draining == render_pc \in {"drain_check", "drain_get", "drain_add"}

\* C1: however many script runs reach the processor of one capture
\* context, at most one recognition thread is ever started for it, and a
\* run that has got as far as the drain loop has exactly one.
IdempotentSessionStart ==
    /\ Len(azure_threads) <= 1
    /\ Draining => Len(azure_threads) = 1

\* a second (or later) run is draining the queue of the one session
IdempotentSessionStartWitness ==
    /\ cycles >= 2
    /\ render_pc = "drain_check"
    /\ Len(azure_threads) = 1
    /\ ctx_audio_processor

\* the translation result_callback looks up for an event
TargetTranslation(t, evt) ==
    DictGet(evt.translations, azure_threads[t].target_lang, "")

\* C2: a recognized event whose text is empty, or whose translation for
\* the session's target language is empty or missing, leaves the result
\* queue as it was; a step of result_callback that does put an event puts
\* the text and the translation of a recognized event with both non-empty.
EventFiltering ==
    [][\A t \in DOMAIN azure_threads, evt \in RecognizedEvents :
          result_callback(t, evt) =>
             IF evt.text = "" \/ TargetTranslation(t, evt) = ""
             THEN result_queue' = result_queue /\ emitted' = emitted
             ELSE result_queue' # result_queue =>
                    /\ Len(result_queue') = Len(result_queue) + 1
                    /\ result_queue'[Len(result_queue')].original = evt.text
                    /\ result_queue'[Len(result_queue')].translated =
                          TargetTranslation(t, evt)]_vars

\* an event with an empty part was dropped while another one was forwarded
EventFilteringWitness ==
    /\ dropped_empty >= 1
    /\ \E i \in DOMAIN result_queue : result_queue[i].origin = "recognized"

ErrorMarker == "ERROR: "

\* C3: a canceled event with reason Error appends exactly one event to the
\* result queue, whose original text is "ERROR: " followed by the error
\* details and whose translated text is the fixed failure notice; a
\* canceled event with another reason leaves the queue as it was.
ErrorSurfacing ==
    [][\A t \in DOMAIN azure_threads, evt \in CanceledEvents :
          canceled_callback(t, evt) =>
             IF evt.reason = "Error"
             THEN /\ Len(result_queue') = Len(result_queue) + 1
                  /\ SubSeq(result_queue', 1, Len(result_queue)) = result_queue
                  /\ LET e == result_queue'[Len(result_queue')]
                     IN  /\ SubSeq(e.original, 1, Len(ErrorMarker)) = ErrorMarker
                         /\ SubSeq(e.original, Len(ErrorMarker) + 1,
                                   Len(e.original)) = evt.error_details
                         /\ e.translated =
                              "Recognition failed. Check Azure credentials."
             ELSE result_queue' = result_queue /\ emitted' = emitted]_vars

\* an error event sits on the queue behind a recognized one, and a
\* cancellation without error was ignored
ErrorSurfacingWitness ==
    /\ Len(result_queue) = 2
    /\ result_queue[1].origin = "recognized"
    /\ result_queue[2].original = "ERROR: bad key"

\* C4: every queued event is a recognized one with both texts non-empty
\* or the synthesized error event, and a session puts at most one
\* synthesized error event.
DeliveredEventInvariant ==
    /\ \A i \in DOMAIN result_queue :
          \/ /\ result_queue[i].origin = "recognized"
             /\ result_queue[i].original # ""
             /\ result_queue[i].translated # ""
          \/ result_queue[i].origin \in {"canceled", "exception"}
    /\ error_events <= 1

\* C5: when the drain loop of a script run is over, no event that was
\* queued when it began is still queued, and each of them was taken
\* exactly once.
DrainCompleteness ==
    (render_pc \in {"list", "refresh"} /\ drain_from >= 0) =>
       /\ \A i \in DOMAIN result_queue : result_queue[i].seq > drain_from
       /\ \A k \in 1..drain_from :
             Cardinality({i \in DOMAIN drained : drained[i] = k}) = 1

\* a drain that began with an event queued has ended, having also taken
\* an event put while it ran
DrainCompletenessWitness ==
    /\ render_pc = "list"
    /\ drain_from >= 1
    /\ Len(drained) > drain_from

\* C6: events reach the store in the order the callbacks queued them:
\* the events taken are the first, second, ... event put, and the events
\* appended are in increasing order of their place in the queue.
RelayOrder ==
    /\ \A i \in DOMAIN drained : drained[i] = i
    /\ \A i, j \in DOMAIN appended : i < j => appended[i] < appended[j]

\* two events were appended, the second in a later script run than the
\* first
RelayOrderWitness ==
    /\ Len(appended) >= 2
    /\ cycles >= 2

\* C7: a room's log only grows at its end, whoever appends; a run's read
\* of its room returns the log oldest first, and extends the previous
\* read when that was of the same room.
RoomOrdering ==
    [][/\ \A r \in Rooms : IsPrefix(db[r], db'[r])
       /\ (render_pc = "list" /\ render_pc' = "refresh") =>
             /\ messages'.room = room_id
             /\ messages'.rows = db[room_id]
             /\ messages.room = room_id =>
                   IsPrefix(messages.rows, messages'.rows)]_vars

\* a read returned the messages of two authors and extended the read
\* before it
RoomOrderingWitness ==
    /\ render_pc = "refresh"
    /\ cycles >= 2
    /\ Len(messages.rows) >= 2
    /\ messages.rows[1].user # messages.rows[2].user

\* C9: once a script run has ended on a capture context that is no longer
\* active and whose recognition session had started, the recognition
\* thread of that context has returned and the input stream is closed.
SessionShutdown ==
    (/\ render_pc = "ended"
     /\ ctx_state = "ended"
     /\ azure_threads # <<>>
     /\ \A t \in DOMAIN azure_threads :
           azure_threads[t].pc \notin {"setup", "starting"}) =>
       /\ \A t \in DOMAIN azure_threads : azure_threads[t].pc = "returned"
       /\ stream.closed

\* C8 as claimed: the worker never exits leaving unprocessed a frame that
\* was queued when stop() set the flag.
DrainOnStop ==
    worker_pc = "done" => stopped_at \cap QueuedIds(audio_queue) = {}

\* C8 as amended: once stop() has set the flag the worker takes at most
\* one more frame, the one whose get it had already entered, and it leaves
\* its loop only with the flag set.
ExitOnStop ==
    /\ taken_after_stop <= 1
    /\ worker_pc = "done" => ~is_running

\* the worker took one frame after the flag was set and has left the loop
\* with a frame that was queued at that moment still in the queue
ExitOnStopWitness ==
    /\ worker_pc = "done"
    /\ taken_after_stop = 1
    /\ stopped_at \cap QueuedIds(audio_queue) # {}

\* C10: an error while a frame is handled sends the worker back to the
\* test of its loop with the queue as it was; the loop is left only with
\* the stop flag set; and a queued frame is taken unless stop() intervenes.
FailSoftWorker ==
    /\ [](worker_pc = "done" => ~is_running)
    /\ [][failed' # failed =>
            /\ worker_pc' = "while"
            /\ audio_queue' = audio_queue
            /\ stream'.written = stream.written]_vars
    /\ \A id \in 1..MaxFrames :
          [](id \in QueuedIds(audio_queue) =>
                <>(id \notin QueuedIds(audio_queue) \/ ~is_running))

\* a frame failed and a frame submitted after it has been written to the
\* stream, the processor still running
FailSoftWorkerWitness ==
    /\ is_running
    /\ failed # <<>>
    /\ \E i \in DOMAIN stream.written : stream.written[i].src > failed[1]

\* C11: while the processor is running recv is never made to wait: its
\* test of is_running can be taken whatever the queue holds and whatever
\* the worker and stop() are doing, it goes on to put the frame without
\* looking at it, its put can always be taken, and the put adds the frame
\* at the tail of audio_queue.
NonBlockingIngestion ==
    /\ []((recv_pc = "idle" /\ submitted < MaxFrames) =>
             \A samples \in FrameSamples, kind \in FrameKinds :
                ENABLED RecvCheck(samples, kind))
    /\ [](recv_pc = "put" => ENABLED RecvPut)
    /\ [][(is_running /\ submitted' # submitted) =>
             /\ recv_pc' = "put"
             /\ recv_frame'.id = submitted'
             /\ audio_queue' = audio_queue]_vars
    /\ [][(recv_pc = "put" /\ recv_pc' = "idle") =>
             audio_queue' = Append(audio_queue, recv_frame)]_vars

\* a malformed frame has been put behind another frame still queued while
\* the worker is writing an earlier one
NonBlockingIngestionWitness ==
    /\ is_running
    /\ worker_pc = "write"
    /\ Len(audio_queue) >= 2
    /\ audio_queue[Len(audio_queue)].kind = "malformed"
    /\ recv_pc = "idle"

\* C12: a failed append leaves the store as it was, where a successful one
\* adds a row; either way the script thread goes on to the next test of
\* its drain loop with the result queue untouched, so that no drained
\* event is ever queued or drained again and what is queued stays queued.
StorageFailure ==
    /\ [][(render_pc = "drain_add" /\ render_pc' # render_pc) =>
             /\ render_pc' = "drain_check"
             /\ result_queue' = result_queue
             /\ drained' = drained
             /\ (db' = db) <=> (appended' = appended)
             /\ Len(appended') <= Len(appended) + 1]_vars
    /\ [](\A i \in DOMAIN result_queue :
             result_queue[i].seq \notin Range(drained))
    /\ [](\A i, j \in DOMAIN drained : drained[i] = drained[j] => i = j)

\* the append of one event failed and a later event has been appended,
\* the script run having got past its drain loop
StorageFailureWitness ==
    /\ render_pc = "refresh"
    /\ \E i \in DOMAIN drained :
          /\ drained[i] \notin Range(appended)
          /\ \E j \in DOMAIN appended : appended[j] > drained[i]

\* the rows the local participant has in the store, over all rooms
LocalRows(d) ==
    {<<r, i>> \in Rooms \X (1..(MaxEvents + MaxRemote)) :
        i \in DOMAIN d[r] /\ d[r][i].user = LocalUser}

\* C13: an event taken from the result queue is handed as it is to one
\* call of add_message, which adds at most one row, to the room of the
\* running cycle, with the cycle's username as author and the event's two
\* texts; and the local participant gets a row in the store by no other
\* step, so that its rows are as many as the events appended.
Attribution ==
    /\ [][drained' # drained =>
             /\ msg' = Head(result_queue)
             /\ drained' = Append(drained, msg'.seq)
             /\ render_pc' = "drain_add"
             /\ db' = db]_vars
    /\ [][(render_pc = "drain_add" /\ render_pc' # render_pc) =>
             /\ msg.seq = drained[Len(drained)]
             /\ \/ db' = db
                \/ \E lang \in Langs :
                      db' = add_message(db, room_id, username, msg.original,
                                        msg.translated, lang)]_vars
    /\ [][(db' # db /\ remote_appends' = remote_appends) =>
             /\ render_pc = "drain_add"
             /\ appended' = Append(appended, msg.seq)]_vars
    /\ [](Cardinality(LocalRows(db)) = Len(appended))
    /\ [](\A i \in DOMAIN appended : appended[i] \in Range(drained))
    /\ [](\A i, j \in DOMAIN appended : appended[i] = appended[j] => i = j)

\* the local participant's event stands in the second room behind a row
\* of another participant, with its two texts
AttributionWitness ==
    /\ Len(db["Side"]) = 2
    /\ db["Side"][1].user = RemoteUser
    /\ db["Side"][2].user = LocalUser
    /\ db["Side"][2].original = "hello"
    /\ db["Side"][2].translated = "hola"
    /\ render_pc = "refresh"

\* C14: over any calls of stop() and steps of the worker, close() is
\* called on the input stream at most once.
CloseOnce == closes <= 1

InQueue(s) == \E i \in DOMAIN result_queue : result_queue[i].seq = s

\* the event is a row of the store and of the list read at line 206
Listed(s) ==
    \E i \in DOMAIN appended :
       /\ appended[i] = s
       /\ messages.room = DefaultRoom
       /\ i \in DOMAIN messages.rows
       /\ messages.rows[i] = db[DefaultRoom][i]

\* the append of the event returned a storage error
AppendFailed(s) ==
    s \in Range(drained) /\ s \notin Range(appended) /\ msg.seq # s

\* the rerun of line 257 is due and the runs followed are used up
CyclesExhausted == render_pc = "idle" /\ cycles = MaxCycles

\* C15: an event on the result queue is in the end a row of the store and
\* of the list the script run reads, unless the capture context stops
\* playing or the append of the event fails (or the runs followed are
\* over before).
EventualPersistence ==
    \A s \in 1..MaxEvents :
       [](InQueue(s) =>
             <>(\/ Listed(s)
                \/ ~ctx_playing
                \/ AppendFailed(s)
                \/ CyclesExhausted))

\* every event of the session is listed by the last run followed, the
\* context still playing
EventualPersistenceWitness ==
    /\ ctx_state = "playing"
    /\ cycles = MaxCycles
    /\ render_pc = "refresh"
    /\ emitted = MaxEvents
    /\ \A s \in 1..MaxEvents : Listed(s)

\* C16: once stop() has set the flag the worker leaves its loop, the
\* queue empty or not and frames failing or not; from then on it enters
\* no new wait on the queue, so that it is through after the wait it was
\* in and the one frame that wait may have given it.
WorkerShutdown ==
    /\ [](~is_running => <>(worker_pc = "done"))
    /\ [][(~is_running /\ worker_pc # "get") => worker_pc' # "get"]_vars
    /\ [][~is_running => taken_after_stop' <= 1]_vars
    /\ [][worker_pc = "done" => worker_pc' = "done"]_vars

\* the worker has left its loop after stop() with a frame that failed and
\* with frames still queued
WorkerShutdownWitness ==
    /\ ~is_running
    /\ worker_pc = "done"
    /\ failed # <<>>
    /\ audio_queue # <<>>

\* C17: the thread is started by a run that has set the marker and built
\* the result queue, and that found no thread before it; so wherever a
\* recognition thread exists the marker is set, and a run that finds the
\* marker set goes from its test straight to the drain loop, whatever
\* the thread is doing.
MarkerBeforeLaunch ==
    /\ [](azure_threads # <<>> => azure_thread_started)
    /\ [](render_pc = "launch" => azure_thread_started)
    /\ [][azure_threads' # azure_threads =>
             \/ Len(azure_threads') = Len(azure_threads)
             \/ /\ azure_threads = <<>>
                /\ azure_thread_started
                /\ render_pc = "launch"]_vars
    /\ [][(render_pc = "check" /\ azure_thread_started) =>
             render_pc' \in {"check", "drain_check", "list"}]_vars
    /\ [][azure_thread_started => azure_thread_started']_vars

\* a later run is in its drain loop while the thread the first run
\* started is still setting the recognizer up
MarkerBeforeLaunchWitness ==
    /\ cycles = MaxCycles
    /\ render_pc = "drain_check"
    /\ Len(azure_threads) = 1
    /\ azure_threads[1].pc \in {"setup", "starting"}

\* C18: the one worker takes the frames in the order recv was given them:
\* what the stream was written comes from submitted frames, in the order
\* of their submission and no frame twice, and each frame written was
\* submitted before the frame in the worker's hands and before every frame
\* still queued.
FrameOrder ==
    /\ \A i, j \in DOMAIN stream.written :
          i < j => stream.written[i].src < stream.written[j].src
    /\ \A i, j \in DOMAIN audio_queue :
          i < j => audio_queue[i].id < audio_queue[j].id
    /\ \A i \in DOMAIN stream.written :
          /\ stream.written[i].src \in 1..submitted
          /\ stream.written[i].nbytes > 0
          /\ frame # NoFrame => stream.written[i].src <= frame.id
          /\ \A j \in DOMAIN audio_queue :
                stream.written[i].src < audio_queue[j].id
    /\ \A j \in DOMAIN audio_queue : frame.id < audio_queue[j].id

\* two frames have been written with a submitted frame between them that
\* was not
FrameOrderWitness ==
    /\ Len(stream.written) >= 2
    /\ stream.written[2].src > stream.written[1].src + 1

\* C19: in no interleaving of stop() with the worker does the worker call
\* write on the input stream after stop() has closed it.
NoWriteAfterClose == late_writes = 0

\* C20: every row the local participant has in the store carries as its
\* language the source language the recognition thread of the context was
\* started with; stated here for the rows of recognized speech, which are
\* in that language.
LanguageTag ==
    \A r \in Rooms : \A i \in DOMAIN db[r] :
       (db[r][i].user = LocalUser /\ db[r][i].original \in Texts) =>
          \A t \in DOMAIN azure_threads :
             db[r][i].lang = azure_threads[t].source_lang

====
